---- MODULE Spec2Model ----
(***************************************************************************)
(* State-machine model of wordpress-migration.py: one run of the script,   *)
(* from the first capability probe to process exit.                        *)
(*                                                                         *)
(* The two sites are the environment.  The source site holds a finite      *)
(* list of published posts and serves it in pages of per_page posts; every *)
(* HTTP request the script issues gets a reply chosen by the environment   *)
(* (a status code with a body, or a raised exception).                     *)
(***************************************************************************)
EXTENDS Integers, Sequences, FiniteSets, TLC

\* ---------------------------------------------------------------- bounds
MaxPosts == 3
MaxPerPage == 2

\* ------------------------------------------------------ program constants
HTTP_OK == 200
HTTP_CREATED == 201
HTTP_SERVER_ERROR == 500
NumEndpoints == 4
EXIT_AUTH_FAILURE == 1
EXIT_ERROR == 1
EXIT_SUCCESS == 0
DEFAULT_TOTAL_PAGES == 0
NO_FEATURED_MEDIA == 0

\* check_api_accessibility: the collections probed, in the order of the list.
endpoints == <<"posts", "pages", "categories", "tags">>

\* A status that is neither 200, 201 nor 500 (a 4xx answer).
OtherStatuses == {404}
\* featured_media values of source posts: 0 is WordPress's "no featured image".
FeaturedIds == {NO_FEATURED_MEDIA, 7}
\* The identifier the destination assigns to the n-th media it creates.
NewMediaId(n) == 100 + n
\* An optional value (a dict entry that may be missing, a JSON member that
\* may be null): the empty sequence, or the one-element sequence of the value.
None == <<>>
Some(v) == <<v>>
\* Value of a local variable that is not bound.
Unbound == "unbound"

VARIABLES
    srcPosts,        \* environment: the published posts of the source site
    per_page,        \* get_all_posts: parameter per_page
    hdrPresent,      \* environment: list responses carry X-WP-TotalPages
    pc,              \* position of the (single) thread of control
    probeIdx,        \* check_api_accessibility: index of `endpoint` in endpoints
    response,        \* check_api_accessibility: status_code of local `response`
    probesFailed,    \* history: every collection probe so far failed (no 200)
    use_legacy_api,  \* self.use_legacy_api
    page,            \* get_all_posts: local page
    posts,           \* get_all_posts: local posts
    migrate_posts,   \* migrate_all_posts: local posts (Unbound until assigned)
    idx,             \* migrate_all_posts: position of `post` in posts
    post_data,       \* migrate_all_posts: local post_data
    imgStep,         \* history: state of the current post's featured-image step
    mediaCount,      \* environment: media created on the destination so far
    log,             \* history: the requests issued so far, in order
    submitted,       \* history: the post-creation requests, with their payloads
    fatal,           \* history: where the exception that ended the run was raised
    credSeen,        \* history: a probe was answered 500 / incorrect_password
    pageFailed,      \* history: the page whose request failed (0: none)
    imgReqs,         \* history: image requests issued for the current post
    imgOk,           \* history: all of them were answered with success
    rootFailed,      \* history: the discovery root did not answer 200
    postRaised,      \* history: the post during which a request raised (0: none)
    exitCode         \* process exit status (Unbound while running)

vars == <<srcPosts, per_page, hdrPresent, pc, probeIdx, response, probesFailed,
          use_legacy_api, page, posts, migrate_posts, idx, post_data, imgStep,
          mediaCount, log, submitted, fatal, credSeen, pageFailed, imgReqs,
          imgOk, rootFailed, postRaised, exitCode>>

envVars == <<srcPosts, per_page, hdrPresent>>
detectVars == <<probeIdx, response, probesFailed, use_legacy_api, credSeen,
                rootFailed>>
fetchVars == <<page, posts, migrate_posts, pageFailed>>
postVars == <<idx, post_data, imgStep, mediaCount, submitted, imgReqs, imgOk,
              postRaised>>

\* ------------------------------------------------------------- utilities
Min(a, b) == IF a < b THEN a ELSE b

SelectKind(s, k) == SelectSeq(s, LAMBDA r : r.kind = k)

\* One entry of the request log.
Req(kind, arg, base) == [kind |-> kind, arg |-> arg, base |-> base]

\* ----------------------------------------------------------- environment
\* A source post, as far as the script reads it: its id and featured_media.
SourcePost(i, f) == [id |-> i, featured_media |-> f]

SourceCollections ==
    UNION {{[i \in 1..n |-> SourcePost(i, f[i])] : f \in [1..n -> FeaturedIds]}
           : n \in 0..MaxPosts}

\* What the source answers for ?page=p&per_page=pp.
PageOf(src, pp, p) == SubSeq(src, (p - 1) * pp + 1, Min(p * pp, Len(src)))

\* The number of pages the source reports in X-WP-TotalPages.
TotalPages(src, pp) == (Len(src) + pp - 1) \div pp

\* The headers of a list response: the X-WP-TotalPages entry, if carried.
ListHeaders(src, pp, present) ==
    IF present THEN <<TotalPages(src, pp)>> ELSE <<>>

\* Replies to a GET: an exception raised by the call, or a status and a body.
Raised == [exc |-> TRUE, status |-> 0, code |-> "none"]
Reply(status, code) == [exc |-> FALSE, status |-> status, code |-> code]

\* Replies to a capability probe: "code" is the body's machine-readable code
\* ("unparseable": response.json() raises).
ProbeReplies ==
    {Raised, Reply(HTTP_OK, "none"),
     Reply(HTTP_SERVER_ERROR, "incorrect_password"),
     Reply(HTTP_SERVER_ERROR, "internal_error"),
     Reply(HTTP_SERVER_ERROR, "unparseable")}
    \cup {Reply(s, "rest_forbidden") : s \in OtherStatuses}

\* Replies to a plain request: success, a non-success status, a raised
\* exception (transport error, or a body that cannot be used).
PlainReplies(success) ==
    {Raised, Reply(success, "none")} \cup {Reply(s, "none") : s \in OtherStatuses}

\* ------------------------------------------------------------ the script
\* MainExit with the handler's exit status lost.
MainExit_AlwaysZero(raised) == EXIT_SUCCESS

\* __main__: the exit status of the process. An exception that reaches the
\* top-level handler is printed and the process exits with 1; otherwise the
\* script runs off its end and exits with 0.
MainExit(raised) == IF raised THEN EXIT_ERROR ELSE EXIT_SUCCESS

\* An exception propagates to the handler of __main__ and ends the process.
Abort(where) ==
    /\ pc' = "exited"
    /\ exitCode' = MainExit(TRUE)
    /\ fatal' = where

\* IsIncorrectPassword testing for the status of an authentication failure.
IsIncorrectPassword_Unauthorized(r) ==
    r.status = 401 /\ r.code = "incorrect_password"

\* check_api_accessibility: the test for the incorrect-credentials answer.
IsIncorrectPassword(r) ==
    r.status = HTTP_SERVER_ERROR /\ r.code = "incorrect_password"

\* check_api_accessibility: the condition under which the legacy endpoint is
\* tried. The generator ranges over endpoints but tests the one local
\* `response`, the last response bound by the probing loop (or the root
\* response when every probe raised).
TryLegacy(resp) == \A e \in 1..NumEndpoints : resp = HTTP_SERVER_ERROR

\* RootFails letting a non-success status of the root through.
RootFails_OnlyException(r) == r.exc

\* check_api_accessibility: the root request raised (handler of the outer
\* try) or was answered with a status other than 200 (explicit raise).
RootFails(r) == r.exc \/ r.status # HTTP_OK

\* ProbeExcept re-raising what a probe raised.
ProbeExcept_Raise(r) == [raised |-> TRUE]

\* check_api_accessibility: the handler inside the loop over endpoints only
\* logs.
ProbeExcept(r) == [raised |-> FALSE]

\* check_api_accessibility, first request: the API discovery root.
CheckApiRoot ==
    /\ pc = "check_api"
    /\ \E r \in PlainReplies(HTTP_OK) :
        /\ log' = Append(log, Req("root", 0, "wp-json"))
        /\ rootFailed' = (r # Reply(HTTP_OK, "none"))
        /\ IF RootFails(r)
             THEN /\ Abort("detect")
                  /\ UNCHANGED <<probeIdx, response>>
             ELSE /\ response' = r.status
                  /\ probeIdx' = 1
                  /\ pc' = "probe"
                  /\ UNCHANGED <<fatal, exitCode>>
    /\ UNCHANGED <<envVars, probesFailed, use_legacy_api, credSeen, fetchVars,
                   postVars>>

\* check_api_accessibility, one iteration of the loop over endpoints.
ProbeEndpoint ==
    /\ pc = "probe"
    /\ \E r \in ProbeReplies :
        /\ log' = Append(log, Req("probe", probeIdx, endpoints[probeIdx]))
        /\ response' = IF r.exc THEN response ELSE r.status
        /\ credSeen' = (credSeen \/ r = Reply(HTTP_SERVER_ERROR, "incorrect_password"))
        /\ probesFailed' = (probesFailed /\ r # Reply(HTTP_OK, "none"))
        /\ IF ~r.exc /\ IsIncorrectPassword(r)
             THEN /\ pc' = "exited"
                  /\ exitCode' = EXIT_AUTH_FAILURE
                  /\ fatal' = "credentials"
                  /\ UNCHANGED probeIdx
             ELSE IF (r.exc \/ r.code = "unparseable") /\ ProbeExcept(r).raised
             THEN Abort("detect") /\ UNCHANGED probeIdx
             ELSE /\ IF probeIdx = NumEndpoints
                       THEN pc' = "legacy_check" /\ UNCHANGED probeIdx
                       ELSE pc' = "probe" /\ probeIdx' = probeIdx + 1
                  /\ UNCHANGED <<fatal, exitCode>>
    /\ UNCHANGED <<envVars, use_legacy_api, rootFailed, fetchVars, postVars>>

\* check_api_accessibility, after the loop: the legacy endpoint.
LegacyCheck ==
    /\ pc = "legacy_check"
    /\ IF TryLegacy(response)
         THEN \E r \in PlainReplies(HTTP_OK) :
                /\ log' = Append(log, Req("legacy", 0, "legacy"))
                /\ IF r.exc
                     THEN /\ Abort("detect")
                          /\ UNCHANGED <<response, use_legacy_api>>
                     ELSE /\ response' = r.status
                          /\ use_legacy_api' = (r.status = HTTP_OK)
                          /\ pc' = "version"
                          /\ UNCHANGED <<fatal, exitCode>>
         ELSE /\ pc' = "version"
              /\ UNCHANGED <<log, response, use_legacy_api, fatal, exitCode>>
    /\ UNCHANGED <<envVars, probeIdx, probesFailed, credSeen, rootFailed,
                   fetchVars, postVars>>

\* check_wordpress_version: two informational requests inside a handler that
\* swallows every exception; then check_api_accessibility returns and its
\* locals are gone.
CheckVersion ==
    /\ pc = "version"
    /\ pc' = "fetch_init"
    /\ response' = Unbound
    /\ probeIdx' = 0
    /\ UNCHANGED <<envVars, probesFailed, use_legacy_api, credSeen, rootFailed,
                   fetchVars, postVars, log, fatal, exitCode>>

\* get_all_posts: total_pages, read from the response headers with a default.
total_pages(headers) ==
    IF headers = <<>> THEN DEFAULT_TOTAL_PAGES ELSE headers[1]

\* LastPage with the modern comparison off by one.
LastPage_ModernStrict(legacy, current_posts, pp, pg, headers) ==
    IF legacy
      THEN Len(current_posts) < pp
      ELSE pg > total_pages(headers)

\* LastPage with the legacy comparison off by one.
LastPage_LegacyFull(legacy, current_posts, pp, pg, headers) ==
    IF legacy
      THEN Len(current_posts) <= pp
      ELSE pg >= total_pages(headers)

\* get_all_posts: the test, after a non-empty page was appended, that ends
\* the loop ("Verifica se ha mais paginas").
LastPage(legacy, current_posts, pp, pg, headers) ==
    IF legacy
      THEN Len(current_posts) < pp
      ELSE pg >= total_pages(headers)

\* FetchExcept leaving the loop with what was collected instead of raising.
FetchExcept_ReturnPartial(partial) == [raised |-> FALSE, value |-> partial]

\* get_all_posts: the handler of the loop body logs and re-raises; nothing is
\* returned.
FetchExcept(partial) == [raised |-> TRUE, value |-> Unbound]

\* get_all_posts: the endpoint the pages are requested from.
PostsEndpoint(legacy) == IF legacy THEN "legacy" ELSE "modern"

\* migrate_all_posts: the media endpoint, built from self.source_api.
MediaEndpoint(legacy) == "modern"

\* NextPage requesting the same page again.
NextPage_Same(pg) == pg

\* NextPage skipping a page.
NextPage_Skip(pg) == pg + 2

\* get_all_posts: the page requested after a page that was not the last.
NextPage(pg) == pg + 1

\* get_all_posts returns to migrate_all_posts, whose loop starts.
ReturnPosts(result) ==
    /\ migrate_posts' = result
    /\ idx' = 1
    /\ pc' = IF result = <<>> THEN "done" ELSE "post_begin"

\* get_all_posts, before the loop.
FetchInit ==
    /\ pc = "fetch_init"
    /\ posts' = <<>>
    /\ page' = 1
    /\ pc' = "fetch_page"
    /\ UNCHANGED <<envVars, detectVars, migrate_posts, pageFailed, postVars,
                   log, fatal, exitCode>>

\* get_all_posts, one iteration of the loop: one page request.
FetchPage ==
    /\ pc = "fetch_page"
    /\ \E r \in PlainReplies(HTTP_OK) :
        /\ log' = Append(log, Req("page", page, PostsEndpoint(use_legacy_api)))
        /\ pageFailed' = IF r = Reply(HTTP_OK, "none") THEN pageFailed ELSE page
        /\ IF r.exc \/ r.status # HTTP_OK
             THEN LET h == FetchExcept(posts) IN
                  IF h.raised
                    THEN /\ Abort("fetch")
                         /\ UNCHANGED <<page, posts, migrate_posts, idx>>
                    ELSE /\ ReturnPosts(h.value)
                         /\ UNCHANGED <<page, posts, fatal, exitCode>>
             ELSE LET current_posts == PageOf(srcPosts, per_page, page)
                      headers == ListHeaders(srcPosts, per_page, hdrPresent)
                  IN
                  IF current_posts = <<>>
                    THEN /\ ReturnPosts(posts)
                         /\ UNCHANGED <<page, posts, fatal, exitCode>>
                    ELSE /\ posts' = posts \o current_posts
                         /\ IF LastPage(use_legacy_api, current_posts, per_page,
                                        page, headers)
                              THEN /\ ReturnPosts(posts')
                                   /\ UNCHANGED page
                              ELSE /\ page' = NextPage(page)
                                   /\ pc' = "fetch_page"
                                   /\ UNCHANGED <<migrate_posts, idx>>
                         /\ UNCHANGED <<fatal, exitCode>>
    /\ UNCHANGED <<envVars, detectVars, post_data, imgStep, mediaCount,
                   submitted, imgReqs, imgOk, postRaised>>

\* migrate_all_posts: the test for a featured image.
HasFeaturedImage(post) == post.featured_media # NO_FEATURED_MEDIA

\* BuildPostData reusing the dict of the previous iteration.
BuildPostData_Reuse(post) ==
    [src |-> post.id, status |-> "publish",
     featured_media |-> IF idx = 1 THEN None ELSE post_data.featured_media]

\* migrate_all_posts: the payload built from a source post.
BuildPostData(post) ==
    [src |-> post.id, status |-> "publish", featured_media |-> None]

\* StepAfterBuild submitting the post before its image is handled.
StepAfterBuild_SkipImage(post) == "create"

\* migrate_all_posts: the step that follows the construction of post_data.
StepAfterBuild(post) == IF HasFeaturedImage(post) THEN "meta" ELSE "create"

\* The "id" of the body of an upload response: the identifier of the media
\* the destination created, None when it created none.
UploadedId(r, created) ==
    IF r.status = HTTP_CREATED THEN Some(NewMediaId(created)) ELSE None

\* migrate_all_posts: the test for a created media.
UploadCreated(status) == status = HTTP_CREATED

\* AttachedMedia keeping the source-side identifier.
AttachedMedia_SourceId(featured_media_id, new_media_id) == Some(featured_media_id)

\* migrate_all_posts: the identifier attached to the payload after an upload.
AttachedMedia(featured_media_id, new_media_id) == new_media_id

\* ContinuesAfterCreate leaving the loop after the first post.
ContinuesAfterCreate_Never(status) == FALSE

\* ContinuesAfterCreate leaving the loop on a rejected creation.
ContinuesAfterCreate_StopOnError(status) == status = HTTP_CREATED

\* migrate_all_posts: whether the loop goes on after the creation response;
\* both branches only log.
ContinuesAfterCreate(status) == TRUE

\* PostExcept leaving the loop instead of raising.
PostExcept_Swallow(where) ==
    /\ pc' = "done"
    /\ UNCHANGED <<fatal, exitCode>>

\* migrate_all_posts: the handler of the per-post block logs and re-raises.
PostExcept(where) == Abort(where)

\* migrate_all_posts, start of one iteration: build post_data.
PostBegin ==
    /\ pc = "post_begin"
    /\ LET post == migrate_posts[idx] IN
        /\ post_data' = BuildPostData(post)
        /\ imgStep' = "not_started"
        /\ imgReqs' = 0
        /\ imgOk' = TRUE
        /\ pc' = StepAfterBuild(post)
    /\ UNCHANGED <<envVars, detectVars, fetchVars, idx, mediaCount, submitted,
                   postRaised, log, fatal, exitCode>>

\* The image step gives up and the post goes on without an image.
Abandon ==
    /\ imgStep' = "abandoned"
    /\ pc' = "create"
    /\ UNCHANGED <<fatal, exitCode>>

\* migrate_all_posts: the metadata of the featured image.
FetchMedia ==
    /\ pc = "meta"
    /\ \E r \in PlainReplies(HTTP_OK) :
        /\ log' = Append(log, Req("meta", idx, MediaEndpoint(use_legacy_api)))
        /\ postRaised' = IF r.exc THEN idx ELSE postRaised
        /\ imgReqs' = imgReqs + 1
        /\ imgOk' = (imgOk /\ r = Reply(HTTP_OK, "none"))
        /\ IF r.exc
             THEN PostExcept("meta") /\ UNCHANGED imgStep
             ELSE IF r.status = HTTP_OK
                    THEN /\ imgStep' = "metadata"
                         /\ pc' = "download"
                         /\ UNCHANGED <<fatal, exitCode>>
                    ELSE Abandon
    /\ UNCHANGED <<envVars, detectVars, fetchVars, idx, post_data, mediaCount,
                   submitted>>

\* migrate_all_posts: the bytes of the featured image.
DownloadImage ==
    /\ pc = "download"
    /\ \E r \in PlainReplies(HTTP_OK) :
        /\ log' = Append(log, Req("download", idx, "url"))
        /\ postRaised' = IF r.exc THEN idx ELSE postRaised
        /\ imgReqs' = imgReqs + 1
        /\ imgOk' = (imgOk /\ r = Reply(HTTP_OK, "none"))
        /\ IF r.exc
             THEN PostExcept("download") /\ UNCHANGED imgStep
             ELSE IF r.status = HTTP_OK
                    THEN /\ imgStep' = "downloaded"
                         /\ pc' = "upload"
                         /\ UNCHANGED <<fatal, exitCode>>
                    ELSE Abandon
    /\ UNCHANGED <<envVars, detectVars, fetchVars, idx, post_data, mediaCount,
                   submitted>>

\* migrate_all_posts: the upload of the image to the destination.
UploadImage ==
    /\ pc = "upload"
    /\ \E r \in PlainReplies(HTTP_CREATED) :
        /\ log' = Append(log, Req("upload", idx, "dest"))
        /\ postRaised' = IF r.exc THEN idx ELSE postRaised
        /\ imgReqs' = imgReqs + 1
        /\ imgOk' = (imgOk /\ r = Reply(HTTP_CREATED, "none"))
        /\ mediaCount' = IF r = Reply(HTTP_CREATED, "none")
                           THEN mediaCount + 1 ELSE mediaCount
        /\ IF r.exc
             THEN PostExcept("upload") /\ UNCHANGED <<imgStep, post_data>>
             ELSE IF UploadCreated(r.status)
                    THEN /\ post_data' =
                              [post_data EXCEPT !.featured_media =
                                 AttachedMedia(migrate_posts[idx].featured_media,
                                               UploadedId(r, mediaCount'))]
                         /\ imgStep' = "uploaded"
                         /\ pc' = "create"
                         /\ UNCHANGED <<fatal, exitCode>>
                    ELSE Abandon /\ UNCHANGED post_data
    /\ UNCHANGED <<envVars, detectVars, fetchVars, idx, submitted>>

\* migrate_all_posts: the creation of the post on the destination, and the
\* end of the iteration.
CreatePost ==
    /\ pc = "create"
    /\ \E r \in PlainReplies(HTTP_CREATED) :
        /\ log' = Append(log, Req("create", idx, "dest"))
        /\ postRaised' = IF r.exc THEN idx ELSE postRaised
        /\ submitted' = Append(submitted,
              [post |-> post_data.src, featured_media |-> post_data.featured_media,
               img |-> imgStep, imgReqs |-> imgReqs, imgOk |-> imgOk,
               media |-> mediaCount,
               result |-> IF r.exc THEN "raised"
                          ELSE IF r.status = HTTP_CREATED THEN "created"
                          ELSE "rejected"])
        /\ IF r.exc
             THEN PostExcept("create") /\ UNCHANGED idx
             ELSE /\ UNCHANGED <<fatal, exitCode>>
                  /\ IF ContinuesAfterCreate(r.status) /\ idx < Len(migrate_posts)
                       THEN idx' = idx + 1 /\ pc' = "post_begin"
                       ELSE UNCHANGED idx /\ pc' = "done"
    /\ UNCHANGED <<envVars, detectVars, fetchVars, post_data, imgStep,
                   mediaCount, imgReqs, imgOk>>

\* __main__: migrate_all_posts returned and the script ends.
Finish ==
    /\ pc = "done"
    /\ pc' = "exited"
    /\ exitCode' = MainExit(FALSE)
    /\ UNCHANGED <<envVars, detectVars, fetchVars, postVars, log, fatal>>

Init ==
    /\ srcPosts \in SourceCollections
    /\ per_page \in 1..MaxPerPage
    /\ hdrPresent \in BOOLEAN
    /\ pc = "check_api"
    /\ probeIdx = 0
    /\ response = Unbound
    /\ probesFailed = TRUE
    /\ use_legacy_api = FALSE
    /\ page = 0
    /\ posts = <<>>
    /\ migrate_posts = Unbound
    /\ idx = 0
    /\ post_data = Unbound
    /\ imgStep = "not_started"
    /\ mediaCount = 0
    /\ log = <<>>
    /\ submitted = <<>>
    /\ fatal = "none"
    /\ credSeen = FALSE
    /\ pageFailed = 0
    /\ imgReqs = 0
    /\ imgOk = TRUE
    /\ rootFailed = FALSE
    /\ postRaised = 0
    /\ exitCode = Unbound

Next ==
    \/ CheckApiRoot
    \/ ProbeEndpoint
    \/ LegacyCheck
    \/ CheckVersion
    \/ FetchInit
    \/ FetchPage
    \/ PostBegin
    \/ FetchMedia
    \/ DownloadImage
    \/ UploadImage
    \/ CreatePost
    \/ Finish

Spec == Init /\ [][Next]_vars

\* The script is one thread that is never suspended for good: every request
\* returns or raises (timeouts), so a step that can be taken is taken.
FairSpec == Spec /\ WF_vars(Next)

\* ================================================================ claims
PageReqs == SelectKind(log, "page")

FetchReturned == migrate_posts # Unbound

RECURSIVE ConcatPages(_, _, _)
\* The concatenation of the source's pages 1..n, in page order.
ConcatPages(src, pp, n) ==
    IF n = 0 THEN <<>> ELSE ConcatPages(src, pp, n - 1) \o PageOf(src, pp, n)

RECURSIVE SumPages(_, _, _)
\* The number of items on the source's pages 1..n.
SumPages(src, pp, n) ==
    IF n = 0 THEN 0 ELSE SumPages(src, pp, n - 1) + Len(PageOf(src, pp, n))

\* C1 (as stated): whatever the variant, and whether or not the list
\* responses carry the total-page-count header, the list get_all_posts
\* returns is the concatenation of all source pages in page order.
C1_FetchComplete ==
    FetchReturned =>
        migrate_posts = ConcatPages(srcPosts, per_page, TotalPages(srcPosts, per_page))

\* The page at which the claim says the walk stops: the first empty page, or
\* the first page with page >= total_pages (modern) / fewer than per_page
\* items (legacy).
IsStopPage(p) ==
    \/ PageOf(srcPosts, per_page, p) = <<>>
    \/ IF use_legacy_api
         THEN Len(PageOf(srcPosts, per_page, p)) < per_page
         ELSE p >= TotalPages(srcPosts, per_page)

StopPage ==
    CHOOSE p \in 1..(MaxPosts + 1) :
        IsStopPage(p) /\ \A q \in 1..(p - 1) : ~IsStopPage(q)

\* C2: with a simulated total-page-count (the header is carried, modern
\* variant) or in the legacy variant, for every page size: pages are
\* requested in order 1, 2, ... and never beyond the stop page; when
\* get_all_posts returns, exactly the pages up to the stop page were
\* requested and the number of posts returned is the sum of the items of all
\* source pages.
C2_CountAndStop ==
    (use_legacy_api \/ hdrPresent) =>
        LET reqs == PageReqs
            stop == StopPage
        IN
        /\ Len(reqs) <= stop
        /\ \A i \in 1..Len(reqs) : reqs[i].arg = i
        /\ FetchReturned =>
             /\ Len(reqs) = stop
             /\ Len(migrate_posts) =
                  SumPages(srcPosts, per_page, TotalPages(srcPosts, per_page))

C2_Witness ==
    /\ FetchReturned /\ ~use_legacy_api /\ hdrPresent
    /\ Len(PageReqs) = 3 /\ Len(migrate_posts) = 3

\* C3: legacy variant, k full pages of exactly per_page posts and then an
\* empty page: get_all_posts returns k * per_page posts after k + 1 page
\* requests, the last of which is the one answered with the empty page.
C3_LegacyFullPages ==
    (use_legacy_api /\ FetchReturned /\ Len(srcPosts) % per_page = 0) =>
        LET k == Len(srcPosts) \div per_page
            reqs == PageReqs
        IN
        /\ Len(migrate_posts) = k * per_page
        /\ Len(reqs) = k + 1
        /\ reqs[k + 1].arg = k + 1
        /\ PageOf(srcPosts, per_page, k + 1) = <<>>
        /\ \A p \in 1..k : Len(PageOf(srcPosts, per_page, p)) = per_page

C3_Witness ==
    /\ use_legacy_api /\ FetchReturned
    /\ Len(srcPosts) = 2 * per_page
    /\ Len(PageReqs) = 3

\* With the header carried, or in the legacy variant, the list returned is
\* the concatenation of all source pages (what remains of C1).
C1_WithHeader == (hdrPresent \/ use_legacy_api) => C1_FetchComplete

ImageKinds == {"meta", "download", "upload"}
WriteKinds == {"upload", "create"}

LastReq == log[Len(log)]

\* C4: a failed page request (exception, non-success status, unusable body)
\* ends the run with a fatal error: the failed request is the last request of
\* the run, pages 1..failed were requested and none after, nothing is
\* returned to migrate_all_posts, and no request is issued for any post.
C4_FetchFailureAborts ==
    pageFailed # 0 =>
        /\ pc = "exited" /\ exitCode = EXIT_ERROR /\ fatal = "fetch"
        /\ ~FetchReturned
        /\ submitted = <<>>
        /\ LastReq.kind = "page" /\ LastReq.arg = pageFailed
        /\ Len(PageReqs) = pageFailed
        /\ \A i \in 1..Len(log) : log[i].kind \notin ImageKinds \cup {"create"}

C4_Witness ==
    /\ pageFailed = 2 /\ pc = "exited"
    /\ Len(posts) > 0

\* C5 (as stated): the image step never ends the run, whatever fails in it,
\* and the creation request of a post whose image step was entered is issued.
C5_MediaNeverRaises ==
    /\ fatal \notin ImageKinds
    /\ \A i \in 1..Len(log) :
         (log[i].kind = "meta" /\ (pc \in {"done", "exited"} \/ idx > log[i].arg))
           => \E j \in (i + 1)..Len(log) :
                 log[j].kind = "create" /\ log[j].arg = log[i].arg

\* An image step that fails with a status (not an exception) only degrades
\* the post (what remains of C5).
C5_StatusFailureDegrades ==
    \A i \in 1..Len(submitted) :
        submitted[i].img = "abandoned" =>
            submitted[i].featured_media = None /\ ~submitted[i].imgOk

RunCompleted == pc \in {"done", "exited"} /\ fatal = "none" /\ FetchReturned

CountResult(res) == Cardinality({i \in 1..Len(submitted) : submitted[i].result = res})

\* Every fetched post was submitted, once, in the order of the fetched list.
AllSubmitted ==
    /\ Len(submitted) = Len(migrate_posts)
    /\ \A i \in 1..Len(submitted) : submitted[i].post = migrate_posts[i].id

\* C6: in a completed run of N posts in which exactly one creation was
\* answered with a non-success status, a creation request was issued for each
\* of the N posts, in order, and N - 1 creations succeeded.
C6_ContinuesPastRejected ==
    (RunCompleted /\ CountResult("rejected") = 1) =>
        /\ AllSubmitted
        /\ CountResult("created") = Len(migrate_posts) - 1

C6_Witness ==
    /\ pc = "done" /\ FetchReturned
    /\ Len(migrate_posts) = 3 /\ Len(submitted) = 3
    /\ submitted[2].result = "rejected"
    /\ CountResult("created") = 2

\* C7: once a probe was answered with the incorrect-credentials signal the
\* process has exited with a non-zero status, that probe is the last request
\* of the run, and no page request and no destination write was issued.
C7_CredentialShortCircuit ==
    credSeen =>
        /\ pc = "exited" /\ exitCode = EXIT_AUTH_FAILURE /\ exitCode # EXIT_SUCCESS
        /\ LastReq.kind = "probe"
        /\ ~FetchReturned
        /\ \A i \in 1..Len(log) : log[i].kind \notin {"page"} \cup ImageKinds \cup WriteKinds

C7_Witness ==
    credSeen /\ pc = "exited" /\ Len(log) = 4 /\ ~probesFailed

\* C8: a creation request for a post with a featured image is issued only
\* when the image step of that post has ended (uploaded, or abandoned on a
\* failure), and an image request is never issued for a post whose creation
\* request was already issued.
C8_CreateAfterImage ==
    /\ \A i \in 1..Len(submitted) :
         srcPosts[submitted[i].post].featured_media # NO_FEATURED_MEDIA =>
             /\ submitted[i].img \in {"uploaded", "abandoned"}
             /\ submitted[i].imgReqs >= 1
    /\ (log # <<>> /\ LastReq.kind \in ImageKinds) =>
         \A j \in 1..Len(log) :
             ~(log[j].kind = "create" /\ log[j].arg = LastReq.arg)

C8_Witness ==
    /\ \E i \in 1..Len(submitted) : submitted[i].img = "uploaded"
    /\ \E i \in 1..Len(submitted) :
         submitted[i].img = "abandoned" /\ submitted[i].imgReqs = 2

\* C9: a submitted payload has a featured-image field exactly when the source
\* post has a featured image and the metadata request, the download and the
\* upload were all answered with success; the field is then the identifier
\* the destination assigned to that upload.
C9_FeaturedFieldIff ==
    \A i \in 1..Len(submitted) :
        LET s == submitted[i]
            has == srcPosts[s.post].featured_media # NO_FEATURED_MEDIA
            allOk == s.imgReqs = 3 /\ s.imgOk
        IN /\ (s.featured_media # None) <=> (has /\ allOk)
           /\ (s.featured_media # None) => s.featured_media = Some(NewMediaId(s.media))

C9_Witness ==
    /\ Len(srcPosts) = 2 /\ Len(submitted) = 2
    /\ srcPosts[1].featured_media = 7
    /\ srcPosts[2].featured_media = NO_FEATURED_MEDIA
    /\ submitted[1].featured_media = Some(NewMediaId(1))
    /\ submitted[2].featured_media = None
    /\ CountResult("created") = 2

\* C10: the process exits with 0 exactly when the whole run completed (every
\* fetched post submitted, created or rejected) and with 1 exactly when a
\* fatal error ended it.
C10_ExitCode ==
    pc = "exited" =>
        /\ exitCode \in {EXIT_SUCCESS, EXIT_ERROR}
        /\ (exitCode = EXIT_SUCCESS) <=>
              (/\ FetchReturned /\ AllSubmitted
               /\ \A i \in 1..Len(submitted) :
                     submitted[i].result \in {"created", "rejected"}
               /\ ~credSeen /\ pageFailed = 0 /\ fatal = "none")
        /\ (exitCode = EXIT_ERROR) <=> (fatal # "none")

C10_Witness ==
    /\ pc = "exited" /\ exitCode = EXIT_SUCCESS
    /\ Len(submitted) = 2 /\ CountResult("rejected") = 1

LegacyTried == \E i \in 1..Len(log) : log[i].kind = "legacy"

\* The loop over endpoints is over and the process was not ended in it.
ProbingOver ==
    /\ pc \notin {"check_api", "probe", "legacy_check"}
    /\ ~rootFailed /\ ~credSeen

\* C11 (as stated): the legacy endpoint is requested exactly when every one of
\* the four probes failed, and the variant is legacy only after that request.
C11_LegacyIffAllFailed ==
    /\ LegacyTried => probesFailed
    /\ (ProbingOver /\ probesFailed) => LegacyTried
    /\ use_legacy_api => LegacyTried

\* What the code does instead: the legacy request follows the status of the
\* last response bound in the loop, whatever the other probes answered.
C11_LegacyOnlyAfterTried ==
    /\ use_legacy_api => LegacyTried
    /\ LegacyTried => Len(log) >= NumEndpoints + 2

\* C12 (as stated): with the variant switched to legacy, every page request
\* and every featured-image metadata request goes to the legacy base path.
C12_LegacyBasePath ==
    use_legacy_api =>
        \A i \in 1..Len(log) :
            log[i].kind \in {"page", "meta"} => log[i].base = "legacy"

\* The page requests do follow the variant (what remains of C12).
C12_PagesFollowVariant ==
    \A i \in 1..Len(log) :
        log[i].kind = "page" =>
            log[i].base = IF use_legacy_api THEN "legacy" ELSE "modern"

PostKinds == ImageKinds \cup {"create"}

\* C13: an exception raised by a request of the per-post block of post k ends
\* the run: that request is the last of the run, no request is issued for a
\* later post, "done" is not reached and the exit status is 1.
C13_PostExceptionTerminates ==
    postRaised # 0 =>
        /\ pc = "exited" /\ exitCode = EXIT_ERROR /\ fatal \in PostKinds
        /\ LastReq.kind = fatal /\ LastReq.arg = postRaised
        /\ \A i \in 1..Len(log) :
             log[i].kind \in PostKinds => log[i].arg <= postRaised
        /\ Len(submitted) <= postRaised

C13_Witness ==
    /\ postRaised = 2 /\ pc = "exited"
    /\ FetchReturned /\ Len(migrate_posts) = 3
    /\ fatal = "download"

\* C14: no request is issued twice: the page requests, the three image
\* requests of a post and the creation request of a post are pairwise
\* different in what they ask for, and a failed request stays the last
\* request of its kind for its page or post (escalated: the last of the run;
\* downgraded: the step after it is a different one).
C14_NoRetry ==
    LET issued == {i \in 1..Len(log) : log[i].kind \in {"page"} \cup PostKinds}
        asked == {<<log[i].kind, log[i].arg>> : i \in issued}
    IN
    /\ Cardinality(asked) = Cardinality(issued)
    /\ Cardinality({submitted[i].post : i \in 1..Len(submitted)}) = Len(submitted)
    /\ (pageFailed # 0 \/ postRaised # 0) => pc = "exited"

C14_Witness ==
    /\ pc = "done" /\ Len(submitted) = 2
    /\ submitted[1].img = "abandoned" /\ submitted[1].result = "rejected"
    /\ submitted[2].img = "abandoned" /\ submitted[2].imgReqs = 3
    /\ Len(PageReqs) = 2

\* C16: when the discovery root raises or answers a status other than 200 the
\* run ends with a fatal error and the root request is its only request: no
\* collection probe, no legacy request, no page request, no destination
\* write.
C16_RootFailureAborts ==
    rootFailed =>
        /\ pc = "exited" /\ exitCode = EXIT_ERROR /\ fatal = "detect"
        /\ log = <<Req("root", 0, "wp-json")>>
        /\ ~FetchReturned /\ submitted = <<>>

C16_Witness ==
    rootFailed /\ pc = "exited" /\ Len(log) = 1 /\ Len(srcPosts) = 2

\* C17: the probes are issued in the order posts, pages, categories, tags,
\* right after the root request; a probe that raises or answers anything but
\* the credentials signal does not stop the loop, so once the loop is over
\* without that signal all four were issued.
C17_ProbingContinues ==
    /\ \A i \in 1..Len(log) :
         log[i].kind = "probe" =>
             /\ i = log[i].arg + 1
             /\ log[i].arg \in 1..NumEndpoints
             /\ log[i].base = endpoints[log[i].arg]
    /\ ProbingOver =>
         /\ Len(log) >= NumEndpoints + 1
         /\ \A n \in 1..NumEndpoints : log[n + 1].kind = "probe"
    /\ (pc = "exited" /\ fatal = "detect" /\ ~rootFailed) => LegacyTried

C17_Witness ==
    /\ pc = "version" /\ probesFailed /\ ~LegacyTried
    /\ Len(log) = NumEndpoints + 1

\* C19: a destination write (upload, creation) is issued only after detection
\* ended without a fatal error and get_all_posts returned without a failed
\* page; no probe and no page request is issued once a write was, and a run
\* ended by detection or by the fetch has issued no write.
C19_NoWriteBeforeFetch ==
    LET writes == {i \in 1..Len(log) : log[i].kind \in WriteKinds} IN
    /\ writes # {} =>
         /\ ProbingOver /\ FetchReturned /\ pageFailed = 0
         /\ LastReq.kind \notin {"root", "probe", "legacy", "page"}
    /\ (rootFailed \/ credSeen \/ pageFailed # 0
          \/ fatal \in {"detect", "credentials", "fetch"}) => writes = {}

C19_Witness ==
    /\ \E i \in 1..Len(log) : log[i].kind = "upload"
    /\ Len(PageReqs) = 2 /\ use_legacy_api

\* C20: a featured-image field of a submitted payload is the identifier the
\* destination returned for the upload issued for that same post: all three
\* image requests of the post succeeded, the field is the newest media of the
\* destination, it is not the source post's featured_media and it is not the
\* field of an earlier payload.
C20_NoIdentifierLeak ==
    \A i \in 1..Len(submitted) :
        LET s == submitted[i] IN
        s.featured_media # None =>
            /\ s.imgReqs = 3 /\ s.imgOk
            /\ s.featured_media = Some(NewMediaId(s.media))
            /\ s.featured_media # Some(srcPosts[s.post].featured_media)
            /\ \A j \in 1..(i - 1) : submitted[j].featured_media # s.featured_media

C20_Witness ==
    /\ Len(submitted) = 3
    /\ submitted[1].featured_media = Some(NewMediaId(1))
    /\ submitted[2].featured_media = None
    /\ srcPosts[2].featured_media # NO_FEATURED_MEDIA
    /\ submitted[3].featured_media = Some(NewMediaId(2))

DetectPcs == {"check_api", "probe", "legacy_check", "version"}
FetchPcs == {"fetch_init", "fetch_page"}
PostPcs == {"post_begin", "meta", "download", "upload", "create"}

\* The states of the orchestrator: start, capability-detected, posts-fetched
\* (the per-post loop), done, and the end of the process.
PhaseRank(p) ==
    IF p \in DetectPcs THEN 0
    ELSE IF p \in FetchPcs THEN 1
    ELSE IF p \in PostPcs THEN 2
    ELSE IF p = "done" THEN 3
    ELSE 4

\* The steps of one post, in the order of the block.
StepRank(p) ==
    CASE p = "post_begin" -> 0
      [] p = "meta" -> 1
      [] p = "download" -> 2
      [] p = "upload" -> 3
      [] p = "create" -> 4
      [] OTHER -> 5

\* One step of a linear run: the phase never goes back, the post index stays
\* or moves to the next post, and within a post the steps only go forward.
LinearStep ==
    /\ PhaseRank(pc') >= PhaseRank(pc)
    /\ \/ idx' = idx
       \/ idx' = idx + 1 /\ pc \in {"fetch_page", "create"}
    /\ (pc \in PostPcs /\ pc' \in PostPcs /\ idx' = idx) =>
           StepRank(pc') > StepRank(pc)
    /\ (pc \in PostPcs /\ idx' = idx + 1) => pc' = "post_begin"

\* C15: the run is linear (no step goes back to an earlier phase, post or
\* step), "done" is reached only with every fetched post submitted once, in
\* order, created or rejected, and a run in which nothing raises eventually
\* reaches "done".
C15_LinearRun ==
    /\ [][LinearStep]_vars
    /\ [](pc = "done" =>
            /\ AllSubmitted
            /\ \A i \in 1..Len(submitted) :
                  submitted[i].result \in {"created", "rejected"})
    /\ <>(pc = "done" \/ fatal # "none")

C15_Witness ==
    /\ pc = "done" /\ Len(submitted) = 3
    /\ submitted[3].result = "rejected"
    /\ submitted[1].result = "created"

\* C18: the page number starts at 1 and each further request asks for the
\* next page; an answered request for an empty page, for the page that
\* reaches the reported total (modern) or for a short page (legacy) ends the
\* loop; and every run eventually is past get_all_posts (it returned or
\* raised, or the run ended before it).
C18_FetchTerminates ==
    /\ [][/\ pc = "fetch_init" => page' = 1
          /\ (pc = "fetch_page" /\ pc' = "fetch_page") => page' = page + 1
          /\ (pc = "fetch_page" /\ pageFailed' = 0 /\ IsStopPage(page))
                => pc' # "fetch_page"]_vars
    /\ [](pc = "fetch_page" => page = Len(PageReqs) + 1)
    /\ <>(pc \notin DetectPcs \cup FetchPcs)

C18_Witness ==
    /\ use_legacy_api /\ FetchReturned
    /\ Len(PageReqs) = 4 /\ page = 4

====
